---- MODULE Spec2Model ----
(***************************************************************************)
(* fplus::maybe<T> (include/fplus/maybe.h): an optional value that owns    *)
(* its T through a std::unique_ptr<T>, and the free functions over it.     *)
(*                                                                         *)
(* Specifications:                                                         *)
(*   Spec        maybe<int> objects in a store: construction, copy,        *)
(*               assignment, destruction and the free functions, with the  *)
(*               heap slots behind ptr_ made explicit.                     *)
(*   SpecNested  the same store holding maybe<maybe<int>>, with            *)
(*               flatten_maybe.                                            *)
(*   SpecStore   both instantiations.                                      *)
(*   SpecComb    the closures built by lift_maybe and and_then_maybe,      *)
(*               called on an input, with a log of every invocation of    *)
(*               the caller's functions.                                   *)
(***************************************************************************)
EXTENDS Integers, Sequences, FiniteSets, TLC

\* ---------------------------------------------------------------- bounds
MaxVal == 1        \* int is modelled by 0..MaxVal
NumCont == 2       \* maybe<T> objects of the store
MaxSlots == 3      \* heap slots that can hold a T
MaxErr == 2        \* exception values handed to throw_on_nothing

VARIABLES
    T,           \* the type the store's maybe<T> is instantiated with
    alive,       \* alive[c]: object c is constructed and not yet destroyed
    ptr_,        \* ptr_[c]: the unique_ptr member of object c (NULL or a slot)
    heap,        \* heap[s]: the heap slot s, where `new T` can put a T
    last,        \* the operation the client ran last, and its outcome
    terminated,  \* the process was terminated abnormally
    call         \* SpecComb: the closure call in progress / finished

vars == <<T, alive, ptr_, heap, last, terminated, call>>

\* ---------------------------------------------------------------- values
NULL == 0
Values == 0..MaxVal
Errors == 1..MaxErr
Slots == 1..MaxSlots
Cont == 1..NumCont

\* maybe<T> seen as a value: <<>> holds nothing, <<v>> holds v.
nothing == <<>>
just(val) == <<val>>
MaybeValues == {nothing} \cup {just(v) : v \in Values}

\* The values of type T: int, or maybe<int> for the nested maybe<maybe<int>>.
TValues == IF T = "int" THEN Values ELSE MaybeValues

\* How an evaluation ends: it returns a value, throws, or the process dies.
Ret(v) == [kind |-> "return", val |-> <<v>>]
Throw(e) == [kind |-> "throw", val |-> <<e>>]
Abort == [kind |-> "abort", val |-> <<>>]
Crash == [kind |-> "crash", val |-> <<>>]
NoOut == [kind |-> "none", val |-> <<>>]
Fatal(o) == o.kind \in {"abort", "crash"}

\* Evaluate F on every value S can return; any other outcome propagates.
Then(S, F(_)) == UNION {IF o.kind = "return" THEN F(o.val[1]) ELSE {o} : o \in S}

\* ------------------------------------------------- class maybe, by value
maybe_is_just(m) == m # <<>>
maybe_is_nothing(m) == ~maybe_is_just(m)

\* What `return *ptr_` can do on a null ptr_: undefined behaviour, the process
\* dies or some T comes back.
NullDeref == {Crash} \cup {Ret(v) : v \in TValues}

\* assert(is_just()); return *ptr_;  The assert aborts in a build that compiles
\* it in; a build with NDEBUG defined has no assert and goes on to *ptr_.
maybe_unsafe_get_just(m) ==
    IF maybe_is_just(m) THEN {Ret(m[1])}
    ELSE {Abort} \cup NullDeref

\* ------------------------------------------------------- free functions
is_just(m) == maybe_is_just(m)
is_nothing(m) == ~is_just(m)
unsafe_get_just(m) == maybe_unsafe_get_just(m)

just_with_default(defaultValue, m) ==
    IF is_just(m) THEN unsafe_get_just(m)
    ELSE {Ret(defaultValue)}

\* Faulty variant: the value is fetched before the check for nothing.
throw_on_nothing_late_check(e, m) ==
    Then(unsafe_get_just(m), LAMBDA v : IF is_nothing(m) THEN {Throw(e)} ELSE {Ret(v)})

throw_on_nothing(e, m) ==
    IF is_nothing(m) THEN {Throw(e)}
    ELSE unsafe_get_just(m)

EqValues(x, y) ==
    LET inner(a) == Then(unsafe_get_just(y), LAMBDA b : {Ret(a = b)})
    IN Then(unsafe_get_just(x), inner)

\* Faulty variant: only the states are compared, not the held values.
maybe_eq_shallow(x, y) == {Ret(is_just(x) = is_just(y))}

maybe_eq(x, y) ==
    IF is_just(x) /\ is_just(y) THEN EqValues(x, y)
    ELSE {Ret(is_just(x) = is_just(y))}

maybe_neq(x, y) == Then(maybe_eq(x, y), LAMBDA b : {Ret(~b)})

\* Faulty variant: the test for nothing is inverted.
flatten_maybe_inverted(maybe_maybe) ==
    IF is_just(maybe_maybe) THEN {Ret(nothing)}
    ELSE unsafe_get_just(maybe_maybe)

flatten_maybe(maybe_maybe) ==
    IF is_nothing(maybe_maybe) THEN {Ret(nothing)}
    ELSE unsafe_get_just(maybe_maybe)

\* ------------------------------------------------------------ closures
\* The user's functions. A maybe-returning one, Fn(name, k, t), maps x to
\* just((x + k) mod (MaxVal + 1)) when x < t and to nothing otherwise; a plain
\* one, Plain(name, k, m), maps x to (m * x + k) mod (MaxVal + 1).
Fn(name, k, t) == [kind |-> "fn", name |-> name, k |-> k, t |-> t]
Plain(name, k, m) == [kind |-> "plain", name |-> name, k |-> k, m |-> m]
Fns(name) == {Fn(name, k, t) : k \in 0..1, t \in 0..(MaxVal + 1)}
Plains(name) == {Plain(name, k, m) : k \in 0..1, m \in 0..1}
identity == Plain("id", 0, 1)
ApplyFn(f, x) == IF x < f.t THEN just((x + f.k) % (MaxVal + 1)) ELSE nothing
ApplyPlain(f, x) == (f.m * x + f.k) % (MaxVal + 1)

\* The std::function objects the library returns, and forward composition.
lift_maybe(f) == [kind |-> "lift_maybe", f |-> f]
and_then_maybe(f, g) == [kind |-> "and_then_maybe", f |-> f, g |-> g]
\* Faulty variant: the third function is dropped for the second.
and_then_maybe3_typo(f, g, h) == and_then_maybe(and_then_maybe(f, g), g)

and_then_maybe3(f, g, h) == and_then_maybe(and_then_maybe(f, g), h)
and_then_maybe4(f, g, h, i) == and_then_maybe(and_then_maybe(and_then_maybe(f, g), h), i)
compose(f, g) == [kind |-> "compose", f |-> f, g |-> g]

\* A call ends with an outcome and the log of the user's functions invoked.
Res(o, log) == [out |-> o, log |-> log]
WithLog(S, log) == {Res(o, log) : o \in S}
ThenL(R, F(_, _)) ==
    UNION {IF r.out.kind = "return" THEN F(r.out.val[1], r.log) ELSE {r} : r \in R}

RECURSIVE Invoke(_, _, _)

\* Faulty variant: f is applied without the test for a just.
lift_lambda_unchecked(f, m, log) ==
    ThenL(WithLog(unsafe_get_just(m), log),
          LAMBDA a, l1 : ThenL(Invoke(f, a, l1),
                               LAMBDA b, l2 : {Res(Ret(just(b)), l2)}))

\* [f](const maybe<A>& m) { if (is_just(m)) return just<B>(f(unsafe_get_just(m)));
\*                          return nothing<B>(); }
lift_lambda(f, m, log) ==
    IF is_just(m)
    THEN ThenL(WithLog(unsafe_get_just(m), log),
               LAMBDA a, l1 : ThenL(Invoke(f, a, l1),
                                    LAMBDA b, l2 : {Res(Ret(just(b)), l2)}))
    ELSE {Res(Ret(nothing), log)}

\* Faulty variant: g is called without the test for a just.
and_then_lambda_unchecked(f, g, x, log) ==
    ThenL(Invoke(f, x, log),
          LAMBDA maybeB, l1 : ThenL(WithLog(unsafe_get_just(maybeB), l1),
                                    LAMBDA b, l2 : Invoke(g, b, l2)))

\* [f, g](const FIn& x) { auto maybeB = f(x);
\*                        if (is_just(maybeB)) return g(unsafe_get_just(maybeB));
\*                        return nothing<T>(); }
and_then_lambda(f, g, x, log) ==
    ThenL(Invoke(f, x, log),
          LAMBDA maybeB, l1 :
              IF is_just(maybeB)
              THEN ThenL(WithLog(unsafe_get_just(maybeB), l1),
                         LAMBDA b, l2 : Invoke(g, b, l2))
              ELSE {Res(Ret(nothing), l1)})

compose_lambda(f, g, x, log) ==
    ThenL(Invoke(f, x, log), LAMBDA y, l1 : Invoke(g, y, l1))

\* operator() of a callable c on x.
Invoke(c, x, log) ==
    CASE c.kind = "fn" -> {Res(Ret(ApplyFn(c, x)), Append(log, <<c.name, x>>))}
      [] c.kind = "plain" -> {Res(Ret(ApplyPlain(c, x)), Append(log, <<c.name, x>>))}
      [] c.kind = "lift_maybe" -> lift_lambda(c.f, x, log)
      [] c.kind = "and_then_maybe" -> and_then_lambda(c.f, c.g, x, log)
      [] c.kind = "compose" -> compose_lambda(c.f, c.g, x, log)

\* --------------------------------------------------------------- store
\* The object c as the functions above see it through a const reference.
obj(c) == IF ptr_[c] = NULL THEN nothing ELSE just(heap[ptr_[c]].val)

\* A slot is "live" while it holds a T and "free" otherwise; deleting a slot
\* that is not live is undefined behaviour and leaves it "corrupt".
FreeSlot == [st |-> "free", val |-> 0]

HasRoom(h) == \E s \in Slots : h[s].st # "live"
FreshSlot(h) == CHOOSE s \in Slots : h[s].st # "live" /\ \A t \in 1..(s - 1) : h[t].st = "live"

\* new T(v): a slot not in use, holding a copy of v.
new_T(h, v) == [h EXCEPT ![FreshSlot(h)] = [st |-> "live", val |-> v]]

\* Faulty variant: a raw pointer that nobody deletes.
delete_T_leak(h, p) == h

\* ~unique_ptr / unique_ptr::reset on the old pointer: delete p unless null.
delete_T(h, p) ==
    IF p = NULL THEN h
    ELSE [h EXCEPT ![p] = [st |-> IF h[p].st = "live" THEN "free" ELSE "corrupt", val |-> 0]]

\* SpecComb: no closure call is in progress.
Idle == [pc |-> "idle"]

Did(op, a, b, in, out) == [op |-> op, a |-> a, b |-> b, in |-> in, out |-> out]

Init ==
    /\ T = "int"
    /\ alive = [c \in Cont |-> FALSE]
    /\ ptr_ = [c \in Cont |-> NULL]
    /\ heap = [s \in Slots |-> FreeSlot]
    /\ last = Did("start", 0, 0, <<>>, NoOut)
    /\ terminated = FALSE
    /\ call = Idle

\* maybe() {}
DefaultCtor(c) ==
    /\ ~terminated /\ ~alive[c]
    /\ alive' = [alive EXCEPT ![c] = TRUE]
    /\ ptr_' = [ptr_ EXCEPT ![c] = NULL]
    /\ last' = Did("maybe()", c, 0, <<>>, NoOut)
    /\ UNCHANGED <<T, heap, terminated, call>>

\* maybe(const T& val_just) : ptr_(new T(val_just))
ValueCtor(c, v) ==
    /\ ~terminated /\ ~alive[c] /\ HasRoom(heap)
    /\ alive' = [alive EXCEPT ![c] = TRUE]
    /\ heap' = new_T(heap, v)
    /\ ptr_' = [ptr_ EXCEPT ![c] = FreshSlot(heap)]
    /\ last' = Did("maybe(val)", c, 0, <<v>>, NoOut)
    /\ UNCHANGED <<T, terminated, call>>

\* Faulty variant: the pointer is copied, not the value it points to.
CopyOf_shallow(other) == {[out |-> NoOut, p |-> ptr_[other], h |-> heap]}

\* other.is_just() ? ptr_t(new T(other.unsafe_get_just())) : ptr_t()
\* The pointer the expression yields for `other`, with the heap after it;
\* a fatal outcome of unsafe_get_just is handed on as it is.
CopyOf(other) ==
    IF maybe_is_just(obj(other))
    THEN {IF o.kind = "return"
          THEN [out |-> NoOut, p |-> FreshSlot(heap), h |-> new_T(heap, o.val[1])]
          ELSE [out |-> o, p |-> NULL, h |-> heap]
          : o \in maybe_unsafe_get_just(obj(other))}
    ELSE {[out |-> NoOut, p |-> NULL, h |-> heap]}

\* maybe(const maybe<T>& other)
CopyCtor(c, other) ==
    /\ ~terminated /\ ~alive[c] /\ alive[other]
    /\ maybe_is_just(obj(other)) => HasRoom(heap)
    /\ \E r \in CopyOf(other) :
        /\ terminated' = Fatal(r.out)
        /\ alive' = [alive EXCEPT ![c] = ~Fatal(r.out)]
        /\ ptr_' = [ptr_ EXCEPT ![c] = r.p]
        /\ heap' = r.h
        /\ last' = Did("maybe(other)", c, other, <<>>, r.out)
    /\ UNCHANGED <<T, call>>

\* Faulty variant: the assignment moves the value out of `other`.
Assign_steals(c, other) ==
    /\ ~terminated /\ alive[c] /\ alive[other]
    /\ ptr_' = IF c = other THEN ptr_ ELSE [ptr_ EXCEPT ![c] = ptr_[other], ![other] = NULL]
    /\ heap' = IF c = other THEN heap ELSE delete_T(heap, ptr_[c])
    /\ last' = Did("operator=", c, other, <<>>, NoOut)
    /\ UNCHANGED <<T, alive, terminated, call>>

\* maybe<T>& operator = (const maybe<T>& other): the new pointer is built
\* first, then unique_ptr's move assignment adopts it and deletes the old one.
Assign(c, other) ==
    /\ ~terminated /\ alive[c] /\ alive[other]
    /\ maybe_is_just(obj(other)) => HasRoom(heap)
    /\ \E r \in CopyOf(other) :
        /\ terminated' = Fatal(r.out)
        /\ ptr_' = IF Fatal(r.out) THEN ptr_ ELSE [ptr_ EXCEPT ![c] = r.p]
        /\ heap' = IF Fatal(r.out) THEN heap ELSE delete_T(r.h, ptr_[c])
        /\ last' = Did("operator=", c, other, <<>>, r.out)
    /\ UNCHANGED <<T, alive, call>>

\* ~maybe(): the implicit destructor destroys ptr_.
Dtor(c) ==
    /\ ~terminated /\ alive[c]
    /\ alive' = [alive EXCEPT ![c] = FALSE]
    /\ heap' = delete_T(heap, ptr_[c])
    /\ ptr_' = [ptr_ EXCEPT ![c] = NULL]
    /\ last' = Did("~maybe()", c, 0, <<>>, NoOut)
    /\ UNCHANGED <<T, terminated, call>>

\* A call of a function that only reads its arguments: it ends with one of
\* the outcomes in S; a fatal one terminates the process.
Observe(op, a, b, in, S) ==
    /\ ~terminated
    /\ \E o \in S :
        /\ last' = Did(op, a, b, in, o)
        /\ terminated' = Fatal(o)
    /\ UNCHANGED <<T, alive, ptr_, heap, call>>

IsJust(c) == alive[c] /\ Observe("is_just", c, 0, <<>>, {Ret(is_just(obj(c)))})
IsNothing(c) == alive[c] /\ Observe("is_nothing", c, 0, <<>>, {Ret(is_nothing(obj(c)))})
UnsafeGetJust(c) == alive[c] /\ Observe("unsafe_get_just", c, 0, <<>>, unsafe_get_just(obj(c)))
JustWithDefault(d, c) ==
    alive[c] /\ Observe("just_with_default", c, 0, <<d>>, just_with_default(d, obj(c)))
ThrowOnNothing(e, c) ==
    alive[c] /\ Observe("throw_on_nothing", c, 0, <<e>>, throw_on_nothing(e, obj(c)))
Equal(x, y) ==
    /\ alive[x] /\ alive[y]
    /\ Observe("==", x, y, <<>>, maybe_eq(obj(x), obj(y)))
NotEqual(x, y) ==
    /\ alive[x] /\ alive[y]
    /\ Observe("!=", x, y, <<>>, maybe_neq(obj(x), obj(y)))
ApplyLifted(f, c) ==
    /\ alive[c]
    /\ Observe("lift_maybe(f)", c, 0, <<f>>, {r.out : r \in Invoke(lift_maybe(f), obj(c), <<>>)})
FlattenMaybe(c) == alive[c] /\ Observe("flatten_maybe", c, 0, <<>>, flatten_maybe(obj(c)))

Lifecycle ==
    \/ \E c \in Cont : DefaultCtor(c)
    \/ \E c \in Cont : \E v \in TValues : ValueCtor(c, v)
    \/ \E c, other \in Cont : CopyCtor(c, other)
    \/ \E c, other \in Cont : Assign(c, other)
    \/ \E c \in Cont : Dtor(c)

Next ==
    \/ Lifecycle
    \/ \E c \in Cont : IsJust(c)
    \/ \E c \in Cont : IsNothing(c)
    \/ \E c \in Cont : UnsafeGetJust(c)
    \/ \E c \in Cont : \E d \in TValues : JustWithDefault(d, c)
    \/ \E c \in Cont : \E e \in Errors : ThrowOnNothing(e, c)
    \/ \E x, y \in Cont : Equal(x, y)
    \/ \E x, y \in Cont : NotEqual(x, y)
    \/ \E c \in Cont : \E f \in Plains("f") : ApplyLifted(f, c)

Spec == Init /\ [][Next]_vars

\* The same store with T = maybe<int>, where flatten_maybe applies.
InitNested ==
    /\ T = "maybe<int>"
    /\ alive = [c \in Cont |-> FALSE]
    /\ ptr_ = [c \in Cont |-> NULL]
    /\ heap = [s \in Slots |-> FreeSlot]
    /\ last = Did("start", 0, 0, <<>>, NoOut)
    /\ terminated = FALSE
    /\ call = Idle

NextNested ==
    \/ Lifecycle
    \/ \E c \in Cont : FlattenMaybe(c)

SpecNested == InitNested /\ [][NextNested]_vars

\* Both instantiations of the store, each with its client.
InitStore == Init \/ InitNested
NextStore ==
    \/ T = "int" /\ Next
    \/ T = "maybe<int>" /\ NextNested
SpecStore == InitStore /\ [][NextStore]_vars

\* ------------------------------------------------- calls of closures
Done(op, fs, x, r) == [pc |-> "done", op |-> op, fs |-> fs, x |-> x, out |-> r.out, log |-> r.log]

\* The client builds closure c from the functions fs and calls it on x.
CallOn(op, fs, c, x) ==
    /\ ~terminated /\ call.pc = "idle"
    /\ \E r \in Invoke(c, x, <<>>) :
        /\ call' = Done(op, fs, x, r)
        /\ terminated' = Fatal(r.out)
    /\ UNCHANGED <<T, alive, ptr_, heap, last>>

CallLift(f, m) == CallOn("lift_maybe(f)", <<f>>, lift_maybe(f), m)
CallLiftOfCompose(f, g, m) ==
    CallOn("lift_maybe(compose(f,g))", <<f, g>>, lift_maybe(compose(f, g)), m)
CallComposeOfLifts(f, g, m) ==
    CallOn("compose(lift_maybe(f),lift_maybe(g))", <<f, g>>,
           compose(lift_maybe(f), lift_maybe(g)), m)
CallAndThen2(f, g, x) == CallOn("and_then_maybe(f,g)", <<f, g>>, and_then_maybe(f, g), x)
CallAndThen3(f, g, h, x) ==
    CallOn("and_then_maybe(f,g,h)", <<f, g, h>>, and_then_maybe3(f, g, h), x)
CallAndThen4(f, g, h, i, x) ==
    CallOn("and_then_maybe(f,g,h,i)", <<f, g, h, i>>, and_then_maybe4(f, g, h, i), x)

\* The call has returned and the client drops the result.
Return ==
    /\ ~terminated /\ call.pc = "done"
    /\ call' = Idle
    /\ UNCHANGED <<T, alive, ptr_, heap, last, terminated>>

\* The client makes a call only while none is in progress.
NextComb ==
    \/ call.pc = "idle" /\ \E f \in Plains("f") \cup {identity} : \E m \in MaybeValues :
            CallLift(f, m)
    \/ call.pc = "idle" /\ \E f \in Plains("f"), g \in Plains("g") : \E m \in MaybeValues :
            CallLiftOfCompose(f, g, m)
    \/ call.pc = "idle" /\ \E f \in Plains("f"), g \in Plains("g") : \E m \in MaybeValues :
            CallComposeOfLifts(f, g, m)
    \/ call.pc = "idle" /\ \E f \in Fns("f"), g \in Fns("g") : \E x \in Values :
            CallAndThen2(f, g, x)
    \/ call.pc = "idle" /\ \E f \in Fns("f"), g \in Fns("g"), h \in Fns("h") :
            \E x \in Values : CallAndThen3(f, g, h, x)
    \/ call.pc = "idle" /\ \E f \in Fns("f"), g \in Fns("g"), h \in Fns("h"), i \in Fns("i") :
            \E x \in Values : CallAndThen4(f, g, h, i, x)
    \/ Return

SpecComb == Init /\ [][NextComb]_vars

\* ================================================================ claims
CallsOf(name, log) == {j \in 1..Len(log) : log[j][1] = name}
Owners(s) == {c \in Cont : alive[c] /\ ptr_[c] = s}
ReadOps ==
    {"is_just", "is_nothing", "unsafe_get_just", "just_with_default", "throw_on_nothing",
     "==", "!=", "flatten_maybe", "lift_maybe(f)"}

\* C1: and_then_maybe(f, g)(x) invokes f exactly once, on x. If f(x) is nothing
\* the result is nothing and g is never invoked; if f(x) is just(y), g is invoked
\* exactly once, after f, with y, and the result is g(y).
C1_BindShortCircuits ==
    (call.pc = "done" /\ call.op = "and_then_maybe(f,g)") =>
        LET f == call.fs[1]
            g == call.fs[2]
            fx == ApplyFn(f, call.x)
        IN /\ CallsOf("f", call.log) = {1}
           /\ call.log[1] = <<"f", call.x>>
           /\ fx = nothing =>
                /\ call.out = Ret(nothing)
                /\ CallsOf("g", call.log) = {}
           /\ fx # nothing =>
                /\ CallsOf("g", call.log) = {2}
                /\ call.log[2] = <<"g", fx[1]>>
                /\ call.out = Ret(ApplyFn(g, fx[1]))

C1_Witness ==
    /\ call.pc = "done" /\ call.op = "and_then_maybe(f,g)"
    /\ ApplyFn(call.fs[1], call.x) = nothing
    /\ ApplyFn(call.fs[2], call.x) # nothing

\* C2: unsafe_get_just on a maybe that holds nothing always terminates the
\* program abnormally; it never returns a value to the caller.
C2_UnsafeGetJustAlwaysTerminates ==
    (last.op = "unsafe_get_just" /\ ptr_[last.a] = NULL) => Fatal(last.out)

\* C3: throw_on_nothing(e, m) returns the held value when m is a just, throws
\* exactly e (and never runs into unsafe_get_just's assertion) when m is
\* nothing, and leaves m as it was.
C3_ThrowOnNothing ==
    [][\A c \in Cont :
        (last'.op = "throw_on_nothing" /\ last'.a = c) =>
            /\ alive'[c] /\ obj(c)' = obj(c)
            /\ ptr_[c] # NULL => last'.out = Ret(heap[ptr_[c]].val)
            /\ ptr_[c] = NULL => last'.out = Throw(last'.in[1])]_vars

C3_Witness ==
    /\ last.op = "throw_on_nothing" /\ ptr_[last.a] = NULL
    /\ last.out = Throw(last.in[1])

\* C4: a copy (copy construction or copy assignment) has the state and the
\* value of its source in a slot of its own, and reassigning or destroying one
\* object leaves the state and value of every other object as they were.
C4_CopiesAreIndependent ==
    [][/\ \A c, other \in Cont :
            (last'.op \in {"maybe(other)", "operator="} /\ last'.a = c /\ last'.b = other) =>
                /\ alive'[c] /\ obj(c)' = obj(other)'
                /\ (c # other /\ ptr_'[c] # NULL) => ptr_'[c] # ptr_'[other]
       /\ \A c, d \in Cont :
            (last'.op \in {"operator=", "~maybe()"} /\ last'.a = c /\ d # c /\ alive[d]) =>
                alive'[d] /\ obj(d)' = obj(d)]_vars

C4_Witness ==
    /\ last.op = "operator=" /\ last.a # last.b
    /\ ptr_[last.a] # NULL /\ ptr_[last.b] # NULL
    /\ ptr_[last.a] # ptr_[last.b] /\ obj(last.a) = obj(last.b)

\* C5: every slot is released exactly once, when its owner is destroyed or
\* reassigned: no slot is deleted twice, every slot in use has exactly one
\* living owner, and no object points to a slot that is not in use.
C5_ReleasedExactlyOnce ==
    /\ \A s \in Slots : heap[s].st # "corrupt"
    /\ \A s \in Slots : heap[s].st = "live" => Cardinality(Owners(s)) = 1
    /\ \A c \in Cont : ptr_[c] # NULL => (alive[c] /\ heap[ptr_[c]].st = "live")

C5_Witness ==
    /\ last.op = "operator=" /\ last.a = last.b
    /\ ptr_[last.a] # NULL
    /\ \E s \in Slots : heap[s].st = "free" /\ s < ptr_[last.a]

\* C6: x == y is true iff both hold nothing or both hold equal values, and
\* x != y is its negation.
C6_Equality ==
    LET same == \/ ptr_[last.a] = NULL /\ ptr_[last.b] = NULL
                \/ /\ ptr_[last.a] # NULL /\ ptr_[last.b] # NULL
                   /\ heap[ptr_[last.a]].val = heap[ptr_[last.b]].val
    IN /\ last.op = "==" => last.out = Ret(same)
       /\ last.op = "!=" => last.out = Ret(~same)

C6_Witness ==
    /\ last.op = "==" /\ ptr_[last.a] # NULL /\ ptr_[last.b] # NULL
    /\ heap[ptr_[last.a]].val # heap[ptr_[last.b]].val
    /\ last.out = Ret(FALSE)

\* C7: flatten_maybe(mm) returns nothing when mm holds nothing and the inner
\* maybe, unchanged, otherwise; it never fails.
C7_Flatten ==
    last.op = "flatten_maybe" =>
        /\ last.out.kind = "return"
        /\ ptr_[last.a] = NULL => last.out = Ret(nothing)
        /\ ptr_[last.a] # NULL => last.out = Ret(heap[ptr_[last.a]].val)

C7_Witness ==
    /\ last.op = "flatten_maybe" /\ ptr_[last.a] # NULL
    /\ heap[ptr_[last.a]].val # nothing
    /\ last.out = Ret(heap[ptr_[last.a]].val)

\* C8: the functor laws. A lifted f maps just(v) to just(f(v)) and nothing to
\* nothing without invoking f; lift_maybe(id)(m) is m; lift_maybe(compose(f, g))
\* and compose(lift_maybe(f), lift_maybe(g)) agree on every m.
C8_FunctorLaws ==
    call.pc = "done" =>
        /\ call.op = "lift_maybe(f)" =>
            /\ call.x = nothing => (call.out = Ret(nothing) /\ call.log = <<>>)
            /\ call.x # nothing =>
                /\ call.out = Ret(just(ApplyPlain(call.fs[1], call.x[1])))
                /\ call.log = << <<call.fs[1].name, call.x[1]>> >>
            /\ call.fs[1] = identity => call.out = Ret(call.x)
        /\ call.op = "lift_maybe(compose(f,g))" =>
            {call.out} = {r.out : r \in Invoke(compose(lift_maybe(call.fs[1]),
                                                       lift_maybe(call.fs[2])), call.x, <<>>)}
        /\ call.op = "compose(lift_maybe(f),lift_maybe(g))" =>
            {call.out} = {r.out : r \in Invoke(lift_maybe(compose(call.fs[1], call.fs[2])),
                                               call.x, <<>>)}

C8_Witness ==
    /\ call.pc = "done" /\ call.op = "lift_maybe(compose(f,g))"
    /\ call.x # nothing
    /\ call.out # Ret(call.x)

\* C9: the three- and four-function and_then_maybe equal the nested
\* two-function binds; the functions run left to right, each on the value the
\* one before it returned, and once one returns nothing the result is nothing
\* and no later function is invoked.
Nested(fs) ==
    IF Len(fs) = 3
    THEN and_then_maybe(and_then_maybe(fs[1], fs[2]), fs[3])
    ELSE and_then_maybe(and_then_maybe(and_then_maybe(fs[1], fs[2]), fs[3]), fs[4])

C9_ChainsAreNestedBinds ==
    (call.pc = "done" /\ call.op \in {"and_then_maybe(f,g,h)", "and_then_maybe(f,g,h,i)"}) =>
        LET fs == call.fs
            log == call.log
            n == Len(log)
            result(j) == ApplyFn(fs[j], log[j][2])
        IN /\ Invoke(Nested(fs), call.x, <<>>) = {Res(call.out, log)}
           /\ n \in 1..Len(fs)
           /\ \A j \in 1..n : log[j][1] = fs[j].name
           /\ log[1][2] = call.x
           /\ \A j \in 2..n : result(j - 1) = just(log[j][2])
           /\ n < Len(fs) => (result(n) = nothing /\ call.out = Ret(nothing))
           /\ n = Len(fs) => call.out = Ret(result(n))

C9_Witness ==
    /\ call.pc = "done" /\ call.op = "and_then_maybe(f,g,h,i)"
    /\ Len(call.log) = 3
    /\ call.out = Ret(nothing)
    /\ ApplyFn(call.fs[4], call.x) # nothing

\* C10: the state and value of an object change only when the object is the
\* target of a copy assignment; the accessors, the comparisons, the extraction
\* helpers, flatten_maybe and a lifted function change nothing, and neither
\* does being the source of a copy or an assignment.
C10_OnlyAssignmentChanges ==
    [][/\ \A c \in Cont :
            (alive[c] /\ alive'[c] /\ obj(c)' # obj(c)) =>
                (last'.op = "operator=" /\ last'.a = c)
       /\ last'.op \in ReadOps => UNCHANGED <<alive, ptr_, heap>>
       /\ \A other \in Cont :
            (last'.op \in {"maybe(other)", "operator="} /\ last'.b = other) =>
                alive'[other] /\ obj(other)' = obj(other)]_vars

C10_Witness ==
    /\ last.op = "operator=" /\ last.a # last.b
    /\ ptr_[last.b] # NULL /\ alive[last.b]
    /\ T = "maybe<int>"

TypeOK ==
    /\ \A c \in Cont : ptr_[c] \in {NULL} \cup Slots
====
